---- MODULE Spec2Model ----
(***************************************************************************)
(* The hooks of r-hooks: the URL-bound state hooks useQueryState and       *)
(* useHashState, and the hooks of hooks.js.                                *)
(*                                                                         *)
(* Strings are sequences of one-character strings, so that splitting,      *)
(* joining, trimming and the URL encodings are computed, not assumed.      *)
(* JavaScript values are records [t, s]: t is the type tag and s the       *)
(* characters of a string, the decimal digits of a number, or the name of  *)
(* an updater function.                                                    *)
(***************************************************************************)
EXTENDS Integers, Sequences, FiniteSets, TLC

(* ------------------------------ bounds -------------------------------- *)

\* number of setter calls in one behaviour
MaxCalls == 3

(* --------------------------- JavaScript values ------------------------ *)

Str(s) == [t |-> "str", s |-> s]
Num(s) == [t |-> "num", s |-> s]
Fn(name) == [t |-> "fn", s |-> <<name>>]
Undefined == [t |-> "undefined", s |-> <<>>]
Null == [t |-> "null", s |-> <<>>]

NaN == -1
NaNChars == <<"N", "a", "N">>
UndefinedChars == <<"u", "n", "d", "e", "f", "i", "n", "e", "d">>
NullChars == <<"n", "u", "l", "l">>

Digits == <<"0", "1", "2", "3", "4", "5", "6", "7", "8", "9">>

DigitVal(c) == (CHOOSE i \in 1..10 : Digits[i] = c) - 1

IsDigit(c) == \E i \in 1..10 : Digits[i] = c

RECURSIVE ParseDigits(_)
ParseDigits(s) ==
  IF s = <<>> THEN 0
  ELSE 10 * ParseDigits(SubSeq(s, 1, Len(s) - 1)) + DigitVal(s[Len(s)])

RECURSIVE ToDigits(_)
ToDigits(n) ==
  IF n < 10 THEN <<Digits[n + 1]>>
  ELSE ToDigits(n \div 10) \o <<Digits[(n % 10) + 1]>>

\* String.prototype.trim, for the one whitespace character of the model
RECURSIVE TrimStart(_)
TrimStart(s) ==
  IF s # <<>> /\ s[1] = " " THEN TrimStart(Tail(s)) ELSE s

RECURSIVE TrimEnd(_)
TrimEnd(s) ==
  IF s # <<>> /\ s[Len(s)] = " " THEN TrimEnd(SubSeq(s, 1, Len(s) - 1)) ELSE s

Trim(s) == TrimEnd(TrimStart(s))

\* Number(v): a natural number, or NaN
Number(v) ==
  CASE v.t = "str" ->
         LET r == Trim(v.s)
         IN IF r = <<>> THEN 0
            ELSE IF \A i \in 1..Len(r) : IsDigit(r[i]) THEN ParseDigits(r)
            ELSE NaN
    [] v.t = "num" -> IF v.s = NaNChars THEN NaN ELSE ParseDigits(v.s)
    [] v.t = "null" -> 0
    [] OTHER -> NaN

NumberChars(n) == IF n = NaN THEN NaNChars ELSE ToDigits(n)

\* the conversion a template literal applies to a value
TemplateString(v) ==
  CASE v.t = "undefined" -> UndefinedChars
    [] v.t = "null" -> NullChars
    [] OTHER -> v.s

\* the left operand of || is kept when it is truthy
Truthy(v) ==
  CASE v.t = "str" -> v.s # <<>>
    [] v.t = "num" -> v.s # <<"0">> /\ v.s # NaNChars
    [] v.t = "fn" -> TRUE
    [] OTHER -> FALSE

\* v ?? w in place of v || w: an empty string is kept
OrElseNullish(v, w) == IF v.t \in {"null", "undefined"} THEN w ELSE v

OrElse(v, w) == IF Truthy(v) THEN v ELSE w

(* ------------------------- updater functions -------------------------- *)

\* "inc"    is prev => String(Number(prev) + 1)
\* "incNum" is prev => Number(prev) + 1, an updater that returns a non-string
Apply(f, prev) ==
  LET n == Number(prev)
      r == IF n = NaN THEN NaN ELSE n + 1
  IN IF f.s = <<"inc">> THEN Str(NumberChars(r)) ELSE Num(NumberChars(r))

(* ------------------------------ splitting ----------------------------- *)

\* index of the first occurrence of d in s, 0 when there is none
RECURSIVE IndexFrom(_, _, _)
IndexFrom(s, d, i) ==
  IF i > Len(s) THEN 0
  ELSE IF s[i] = d THEN i
  ELSE IndexFrom(s, d, i + 1)

IndexOf(s, d) == IndexFrom(s, d, 1)

\* String.prototype.split on a one-character separator
RECURSIVE Split(_, _)
Split(s, d) ==
  LET i == IndexOf(s, d)
  IN IF i = 0 THEN <<s>>
     ELSE <<SubSeq(s, 1, i - 1)>> \o Split(SubSeq(s, i + 1, Len(s)), d)

RECURSIVE Join(_, _)
Join(parts, d) ==
  IF parts = <<>> THEN <<>>
  ELSE IF Len(parts) = 1 THEN parts[1]
  ELSE parts[1] \o <<d>> \o Join(Tail(parts), d)

RECURSIVE ReplaceChar(_, _, _)
ReplaceChar(s, c, r) ==
  IF s = <<>> THEN <<>>
  ELSE (IF s[1] = c THEN r ELSE <<s[1]>>) \o ReplaceChar(Tail(s), c, r)

Entry(k, v) == [k |-> k, v |-> v]

HasKey(entries, key) == \E i \in 1..Len(entries) : entries[i].k = key

FirstIndex(entries, key) ==
  CHOOSE i \in 1..Len(entries) :
    entries[i].k = key /\ \A j \in 1..(i - 1) : entries[j].k # key

(* --------------------------- URLSearchParams -------------------------- *)
\* Names and values of the model are made of letters, digits and the space;
\* of the application/x-www-form-urlencoded escapes only the one of the
\* space ('+') is therefore needed.

FormDecode(s) == ReplaceChar(s, "+", <<" ">>)

FormEncode(s) == ReplaceChar(s, " ", <<"+">>)

ParsePair(item) ==
  LET i == IndexOf(item, "=")
  IN IF i = 0 THEN Entry(FormDecode(item), <<>>)
     ELSE Entry(FormDecode(SubSeq(item, 1, i - 1)),
                FormDecode(SubSeq(item, i + 1, Len(item))))

\* new URLSearchParams(search): the list of name/value pairs, in order
URLSearchParams(s) ==
  LET items == SelectSeq(Split(s, "&"), LAMBDA it : it # <<>>)
  IN [i \in 1..Len(items) |-> ParsePair(items[i])]

\* URLSearchParams.get: the first value of the name, or null
ParamsGet(q, key) ==
  IF HasKey(q, key) THEN Str(q[FirstIndex(q, key)].v) ELSE Null

\* URLSearchParams.delete: removes every pair of the name
ParamsDelete(q, key) == SelectSeq(q, LAMBDA e : e.k # key)

\* URLSearchParams.append in place of set: the pair is always added
ParamsAppend(q, key, val) == Append(q, Entry(key, val))

\* URLSearchParams.set: overwrites the first pair of the name and removes
\* the others, or appends a new pair
ParamsSet(q, key, val) ==
  IF HasKey(q, key)
  THEN LET i == FirstIndex(q, key)
       IN Append(SubSeq(q, 1, i - 1), Entry(key, val))
            \o ParamsDelete(SubSeq(q, i + 1, Len(q)), key)
  ELSE Append(q, Entry(key, val))

\* URLSearchParams.toString
ParamsToString(q) ==
  Join([i \in 1..Len(q) |->
          FormEncode(q[i].k) \o <<"=">> \o FormEncode(q[i].v)], "&")

(* ------------------------------ hash object --------------------------- *)
\* A plain object is the sequence of its properties in insertion order (no
\* key of the model is integer-like); a property value is a JavaScript value.

ObjGet(obj, key) == obj[FirstIndex(obj, key)].v

ObjSet(obj, key, v) ==
  IF HasKey(obj, key)
  THEN [obj EXCEPT ![FirstIndex(obj, key)] = Entry(key, v)]
  ELSE Append(obj, Entry(key, v))

ObjDelete(obj, key) == SelectSeq(obj, LAMBDA e : e.k # key)

\* one step of the reduce: parts = item.split("="); res[parts[0]] = parts[1]
HashItem(res, item) ==
  LET parts == Split(item, "=")
  IN ObjSet(res, parts[1],
            IF Len(parts) >= 2 THEN Str(parts[2]) ELSE Undefined)

RECURSIVE HashReduce(_, _)
HashReduce(res, items) ==
  IF items = <<>> THEN res
  ELSE HashReduce(HashItem(res, items[1]), Tail(items))

\* hash ? hash.split("&").reduce(..., {}) : {}
ParseHash(h) ==
  IF h # <<>> THEN HashReduce(<<>>, Split(h, "&")) ELSE <<>>

\* key in hashAsObject ? hashAsObject[key] : ""
getHashValue(obj, key) ==
  IF HasKey(obj, key) THEN ObjGet(obj, key) ELSE Str(<<>>)

\* the fragment setter percent-encodes the space
EncodeFragment(s) == ReplaceChar(s, " ", <<"%", "2", "0">>)

(* -------------------------------- inputs ------------------------------ *)

Inst == {1, 2}

Keys == {<<>>, <<"a">>, <<"b">>}

Defaults == {Str(<<>>), Str(<<"5">>)}

\* what a caller passes to the setter: strings, non-strings, updater functions
Literals ==
  {Str(<<>>), Str(<<" ">>), Str(<<"x">>), Str(<<" ", "x">>),
   Null, Undefined, Num(<<"5">>)}

Updaters == {Fn("inc"), Fn("incNum")}

\* the URL segment (without its '?' or '#') when the page loads:
\* "", "a=5", "a=x&b" and "b="
InitSegments ==
  {<<>>, <<"a", "=", "5">>, <<"a", "=", "x", "&", "b">>, <<"b", "=">>}

\* an entry written to the URL by code other than the hooks: "b=z"
ForeignKey == <<"b">>

ForeignEntry == ForeignKey \o <<"=", "z">>

(* -------------------------------- state ------------------------------- *)

VARIABLES
  locationSearch,  \* window.location.search, without the '?'
  locationHash,    \* window.location.hash, without the '#'
  historyLen,      \* entries added to window.history
  calls,           \* setter calls so far
  hashAsObject,    \* the module-level object parsed from the hash at load
  hooks,           \* per hook instance: its arguments and its useState cell
  last             \* the last operation: its input, outcome and pre-state

\* the state of the hooks that are not bound to the URL
VARIABLES
  localStorage,    \* window.localStorage: key -> item (null when absent)
  lsHook,          \* useLocalStorage: its arguments and its useState cell
  lsLog,           \* useLocalStorage: last operation and the values set
  ueHook,          \* useUpdateEffect: firstRenderRef and committed deps
  ueLog,           \* useUpdateEffect: last render and callback invocations
  olEnv,           \* navigator.onLine and the events waiting for dispatch
  olHook,          \* useOnlineStatus: its state and its listeners
  elTargets,       \* handlers registered per (element, eventType)
  elHook,          \* useEventListener: props, callbackRef and cleanup
  elLog,           \* useEventListener: last operation and invocations
  ocHook,          \* useOutsideClick: handlers on document, ref.current
  ocLog,           \* useOutsideClick: last mousedown and invocations
  roHook,          \* useReadonly: valueRef and the value returned
  roLog            \* useReadonly: last render, its argument and outcome

urlVars ==
  <<locationSearch, locationHash, historyLen, calls, hashAsObject, hooks, last>>

storageVars == <<localStorage, lsHook, lsLog>>

updateEffectVars == <<ueHook, ueLog>>

onlineVars == <<olEnv, olHook>>

listenerVars == <<elTargets, elHook, elLog>>

outsideVars == <<ocHook, ocLog>>

readonlyVars == <<roHook, roLog>>

\* what the URL hooks leave alone
otherHooks ==
  <<storageVars, updateEffectVars, onlineVars, listenerVars, outsideVars,
    readonlyVars>>

vars == <<urlVars, otherHooks>>

Unmounted ==
  [mounted |-> FALSE, variant |-> "none", key |-> <<>>,
   defaultVal |-> Undefined, state |-> Undefined, seen |-> Undefined,
   deps |-> Undefined]

NoOp ==
  [op |-> "load", inst |-> 0, arg |-> Undefined, err |-> "none",
   search0 |-> <<>>, hash0 |-> <<>>, hist0 |-> 0,
   state0 |-> Undefined, seen0 |-> Undefined, repeat |-> FALSE]

(* ------------------- the other hooks before any use ------------------- *)

StorageKeys == {<<"k">>, <<"j">>}

LsUnmounted ==
  [mounted |-> FALSE, key |-> <<>>, initialValue |-> Undefined,
   storedValue |-> Undefined, seen |-> Undefined]

NotSet == [set |-> FALSE, v |-> Undefined, ok |-> FALSE]

LsNoOp ==
  [op |-> "load", err |-> "none", n |-> 0,
   sets |-> [k \in StorageKeys |-> NotSet]]

StorageIdle ==
  /\ localStorage = [k \in StorageKeys |-> Null]
  /\ lsHook = LsUnmounted
  /\ lsLog = LsNoOp

UeUnmounted == [mounted |-> FALSE, firstRenderRef |-> TRUE, deps |-> <<>>]

UeNoOp ==
  [op |-> "load", changed |-> FALSE, invoked |-> 0, renders |-> 0,
   changes |-> 0, total |-> 0]

UpdateEffectIdle ==
  /\ ueHook = UeUnmounted
  /\ ueLog = UeNoOp

\* the browser is online and no event waits for dispatch
OlEnvInitial == [onLine |-> TRUE, pending |-> <<>>, flips |-> 0]

OlUnmounted ==
  [phase |-> "none", online |-> FALSE, seen |-> FALSE, listening |-> FALSE,
   op |-> "load"]

OnlineIdle ==
  /\ olEnv = OlEnvInitial
  /\ olHook = OlUnmounted

\* the event targets of the page and the event types dispatched on them
Targets == {"window", "el1", "el2"}

EventTypes == {"click", "keydown"}

NoProps == [eventType |-> "none", callback |-> "none", element |-> "null"]

NoHandler == <<"null", "none">>

ElUnmounted ==
  [phase |-> "none", props |-> NoProps, committed |-> NoProps,
   callbackRef |-> "none", cleanup |-> NoHandler]

ElNoOp ==
  [op |-> "load", target |-> "null", eventType |-> "none", handlers |-> 0,
   callback |-> "none"]

ListenerIdle ==
  /\ elTargets = [t \in Targets \X EventTypes |-> 0]
  /\ elHook = ElUnmounted
  /\ elLog = ElNoOp

OcUnmounted ==
  [phase |-> "none", handlers |-> 0, refCurrent |-> "null",
   callback |-> "none", bound |-> "none", renders |-> 0]

OcNoOp ==
  [op |-> "load", target |-> "none", refCurrent |-> "null", live |-> FALSE,
   invoked |-> 0, callback |-> "none"]

OutsideIdle ==
  /\ ocHook = OcUnmounted
  /\ ocLog = OcNoOp

RoUnmounted == [mounted |-> FALSE, valueRef |-> Undefined, result |-> Undefined]

RoNoOp ==
  [op |-> "load", arg |-> Undefined, first |-> Undefined, err |-> "none",
   renders |-> 0]

ReadonlyIdle ==
  /\ roHook = RoUnmounted
  /\ roLog = RoNoOp

\* a page that uses the URL hooks only
OtherHooksIdle ==
  /\ StorageIdle
  /\ UpdateEffectIdle
  /\ OnlineIdle
  /\ ListenerIdle
  /\ OutsideIdle
  /\ ReadonlyIdle

\* const hash = window.location.hash.substr(1); const hashAsObject = ...
\* The page is loaded with the same entries in the query string and in the
\* hash: no operation reads both segments, so each variant sees every
\* initial segment.
Init ==
  /\ locationSearch \in InitSegments
  /\ locationHash = locationSearch
  /\ historyLen = 0
  /\ calls = 0
  /\ hashAsObject = ParseHash(locationHash)
  /\ hooks = [i \in Inst |-> Unmounted]
  /\ last = NoOp
  /\ OtherHooksIdle

\* a page that does not use the URL hooks
UrlIdle ==
  /\ locationSearch = <<>>
  /\ locationHash = <<>>
  /\ historyLen = 0
  /\ calls = 0
  /\ hashAsObject = ParseHash(<<>>)
  /\ hooks = [i \in Inst |-> Unmounted]
  /\ last = NoOp

getQuery == URLSearchParams(locationSearch)

getQueryStringVal(key) == ParamsGet(getQuery, key)

\* getQueryStringVal(key) || defaultVal
QueryDefaultValue(key, defaultVal) ==
  OrElse(getQueryStringVal(key), defaultVal)

\* getHashValue(key) || defaultValue
HashInitialValue(key, defaultValue) ==
  OrElse(getHashValue(hashAsObject, key), defaultValue)

Before(op, i, arg) ==
  [op |-> op, inst |-> i, arg |-> arg, err |-> "none",
   search0 |-> locationSearch, hash0 |-> locationHash, hist0 |-> historyLen,
   state0 |-> hooks[i].state, seen0 |-> hooks[i].seen,
   repeat |-> (last.op = op /\ last.inst = i /\ last.arg = arg)]

(* --------------------------- first render ----------------------------- *)

\* useQueryState(key, defaultVal), first render and its effect: the effect
\* sets the state to the value it already has
useQueryState(i, key, defaultVal) ==
  /\ ~hooks[i].mounted
  /\ LET defaultValue == QueryDefaultValue(key, defaultVal)
     IN hooks' = [hooks EXCEPT ![i] =
          [mounted |-> TRUE, variant |-> "query", key |-> key,
           defaultVal |-> defaultVal, state |-> defaultValue,
           seen |-> defaultValue, deps |-> defaultValue]]
  /\ last' = Before("mount", i, defaultVal)
  /\ UNCHANGED
       <<locationSearch, locationHash, historyLen, calls, hashAsObject,
         otherHooks>>

\* useHashState(key, defaultValue), first render
useHashState(i, key, defaultValue) ==
  /\ ~hooks[i].mounted
  /\ LET initial == HashInitialValue(key, defaultValue)
     IN hooks' = [hooks EXCEPT ![i] =
          [mounted |-> TRUE, variant |-> "hash", key |-> key,
           defaultVal |-> defaultValue, state |-> initial,
           seen |-> initial, deps |-> Undefined]]
  /\ last' = Before("mount", i, defaultValue)
  /\ UNCHANGED
       <<locationSearch, locationHash, historyLen, calls, hashAsObject,
         otherHooks>>

(* ------------------------------ re-render ----------------------------- *)

\* A later render of the component: the setter closes over the state of
\* this render; in the query variant defaultValue is recomputed from the
\* URL and, when it changed, the effect calls setQuery(defaultValue).
Render(i) ==
  LET h == hooks[i]
      defaultValue == QueryDefaultValue(h.key, h.defaultVal)
      effect == h.variant = "query" /\ defaultValue # h.deps
  IN /\ h.mounted
     /\ h.seen # h.state \/ effect
     /\ hooks' = [hooks EXCEPT ![i] =
          [h EXCEPT !.seen = h.state,
                    !.state = IF effect THEN defaultValue ELSE h.state,
                    !.deps = IF effect THEN defaultValue ELSE h.deps]]
     /\ last' = [NoOp EXCEPT !.op = "render", !.inst = i]
     /\ UNCHANGED
          <<locationSearch, locationHash, historyLen, calls, hashAsObject,
         otherHooks>>

(* ------------------------------- updateUrl ---------------------------- *)

\* the trimmed value is stored in place of the value
UpdatedQueryTrimmed(query, key, valueToStore) ==
  IF Trim(valueToStore.s) # <<>>
  THEN ParamsSet(query, key, Trim(valueToStore.s))
  ELSE ParamsDelete(query, key)

\* query.set(key, valueToStore) or query.delete(key)
UpdatedQuery(query, key, valueToStore) ==
  IF Trim(valueToStore.s) # <<>>
  THEN ParamsSet(query, key, valueToStore.s)
  ELSE ParamsDelete(query, key)

\* updateUrl(newVal) of useQueryState.  The body declares `const query`
\* after its first line, so `newVal(query)` reads that binding in its
\* temporal dead zone and throws a ReferenceError; a non-string value makes
\* valueToStore.trim() throw a TypeError after setQuery was called.
updateUrl(i, newVal) ==
  LET h == hooks[i]
  IN /\ h.mounted /\ h.variant = "query"
     /\ calls < MaxCalls
     /\ calls' = calls + 1
     /\ IF newVal.t = "fn"
        THEN /\ last' = [Before("update", i, newVal) EXCEPT
                           !.err = "ReferenceError"]
             /\ UNCHANGED <<locationSearch, historyLen, hooks>>
        ELSE /\ hooks' = [hooks EXCEPT ![i].state = newVal]
             /\ IF newVal.t # "str"
                THEN /\ last' = [Before("update", i, newVal) EXCEPT
                                   !.err = "TypeError"]
                     /\ UNCHANGED <<locationSearch, historyLen>>
                ELSE /\ locationSearch' =
                          ParamsToString(UpdatedQuery(getQuery, h.key, newVal))
                     /\ historyLen' = historyLen + 1
                     /\ last' = Before("update", i, newVal)
     /\ UNCHANGED <<locationHash, hashAsObject, otherHooks>>

(* ------------------------------ updateHash ---------------------------- *)

\* hashContent[key] = valueToStore or delete hashContent[key]
UpdatedHashContent(hashContent, key, valueToStore) ==
  IF Trim(valueToStore.s) # <<>>
  THEN ObjSet(hashContent, key, valueToStore)
  ELSE ObjDelete(hashContent, key)

\* for (const index in hashContent)
\*   if (key && key.trim() !== "") hashList.push(`${index}=${...}`)
HashList(hashContent, key) ==
  IF key # <<>> /\ Trim(key) # <<>>
  THEN [n \in 1..Len(hashContent) |->
          hashContent[n].k \o <<"=">> \o TemplateString(hashContent[n].v)]
  ELSE <<>>

\* updateHash(newVal) of useHashState: newVal(hash) is applied to the state
\* of the render that created the setter; hashContent is the module-level
\* object itself, changed in place.
updateHash(i, newVal) ==
  LET h == hooks[i]
      valueToStore == IF newVal.t = "fn" THEN Apply(newVal, h.seen) ELSE newVal
      hashContent == UpdatedHashContent(hashAsObject, h.key, valueToStore)
      newHash == EncodeFragment(Join(HashList(hashContent, h.key), "&"))
  IN /\ h.mounted /\ h.variant = "hash"
     /\ calls < MaxCalls
     /\ calls' = calls + 1
     /\ hooks' = [hooks EXCEPT ![i].state = valueToStore]
     /\ IF valueToStore.t # "str"
        THEN /\ last' = [Before("update", i, newVal) EXCEPT
                           !.err = "TypeError"]
             /\ UNCHANGED <<locationHash, historyLen, hashAsObject>>
        ELSE /\ hashAsObject' = hashContent
             /\ locationHash' = newHash
             /\ historyLen' =
                  IF newHash # locationHash THEN historyLen + 1 ELSE historyLen
             /\ last' = Before("update", i, newVal)
     /\ UNCHANGED <<locationSearch, otherHooks>>

(* --------------------------- other writers ---------------------------- *)

AddEntry(segment) ==
  IF segment = <<>> THEN ForeignEntry ELSE segment \o <<"&">> \o ForeignEntry

HasForeign(segment) == HasKey(URLSearchParams(segment), ForeignKey)

\* code other than the hooks adds an entry to the query string (a page
\* without hash hooks)
ForeignSearch ==
  /\ ~HasForeign(locationSearch)
  /\ \A i \in Inst : hooks[i].variant # "hash"
  /\ locationSearch' = AddEntry(locationSearch)
  /\ last' = [NoOp EXCEPT !.op = "foreign"]
  /\ UNCHANGED
       <<locationHash, historyLen, calls, hashAsObject, hooks, otherHooks>>

\* code other than the hooks adds an entry to the hash (a page without
\* query hooks)
ForeignHash ==
  /\ ~HasForeign(locationHash)
  /\ \A i \in Inst : hooks[i].variant # "query"
  /\ locationHash' = AddEntry(locationHash)
  /\ last' = [NoOp EXCEPT !.op = "foreign"]
  /\ UNCHANGED
       <<locationSearch, historyLen, calls, hashAsObject, hooks, otherHooks>>

\* the operations of one hook instance
NextOwn ==
  \/ \E key \in Keys, d \in Defaults : useQueryState(1, key, d)
  \/ \E key \in Keys, d \in Defaults : useHashState(1, key, d)
  \/ Render(1)
  \/ \E newVal \in Literals \cup Updaters : updateUrl(1, newVal)
  \/ \E newVal \in Literals \cup Updaters : updateHash(1, newVal)

Next ==
  \/ NextOwn
  \/ ForeignSearch
  \/ ForeignHash

\* what the two hooks of a page are set to
PairLiterals == {Str(<<>>), Str(<<"x">>), Str(<<"y">>)}

\* the second hook of the page is bound to another key of the same segment
Sibling(variant, key) ==
  /\ hooks[1].mounted
  /\ hooks[1].variant = variant
  /\ hooks[1].key # key

NextPair ==
  \/ \E key \in Keys : useQueryState(1, key, Str(<<>>))
  \/ \E key \in Keys : useHashState(1, key, Str(<<>>))
  \/ \E key \in Keys : Sibling("query", key) /\ useQueryState(2, key, Str(<<>>))
  \/ \E key \in Keys : Sibling("hash", key) /\ useHashState(2, key, Str(<<>>))
  \/ \E i \in Inst : Render(i)
  \/ \E i \in Inst, newVal \in PairLiterals : updateUrl(i, newVal)
  \/ \E i \in Inst, newVal \in PairLiterals : updateHash(i, newVal)
  \/ ForeignSearch
  \/ ForeignHash

\* one hook instance on a page where other code also writes to the URL
Spec == Init /\ [][Next]_vars

\* one hook instance, the only writer of the URL
SpecOwn == Init /\ [][NextOwn]_vars

\* two hook instances bound to different keys of the same segment
SpecPair == Init /\ [][NextPair]_vars

(* ------------------------- reading the URL back ----------------------- *)

Segment(variant) ==
  IF variant = "query" THEN locationSearch ELSE locationHash

\* the segment before the last operation
Segment0(variant) ==
  IF variant = "query" THEN last.search0 ELSE last.hash0

\* the namespace a reload parses from a segment
Namespace(variant, segment) ==
  IF variant = "query" THEN URLSearchParams(segment) ELSE ParseHash(segment)

Present(variant, segment, key) == HasKey(Namespace(variant, segment), key)

\* read(key) on the re-parsed segment; null stands for absent
Read(variant, segment, key) ==
  IF ~Present(variant, segment, key) THEN Null
  ELSE IF variant = "query" THEN ParamsGet(URLSearchParams(segment), key)
  ELSE ObjGet(ParseHash(segment), key)

Blank(s) == Trim(s) = <<>>

HasSpace(s) == \E n \in 1..Len(s) : s[n] = " "

Updated == last.op = "update"

Mounted == last.op = "mount"

\* the hook instance of the last operation
Actor == hooks[last.inst]

(* -------------------------------- C1 ---------------------------------- *)

C2_Isolation ==
  Updated =>
    \A k2 \in Keys \ {Actor.key} :
      Present(Actor.variant, Segment0(Actor.variant), k2)
        => /\ Present(Actor.variant, Segment(Actor.variant), k2)
           /\ Read(Actor.variant, Segment(Actor.variant), k2)
                = Read(Actor.variant, Segment0(Actor.variant), k2)

(* -------------------------------- C3 ---------------------------------- *)

\* C3: an updater function is called with the value the hook returned to
\* the component, no error is raised, the string it returns becomes the
\* hook's value and (for a key that is not blank) is written to the URL.
C3_FunctionalUpdate ==
  (Updated /\ last.arg.t = "fn" /\ Apply(last.arg, last.seen0).t = "str")
    => /\ last.err = "none"
       /\ Actor.state = Apply(last.arg, last.seen0)
       /\ ~Blank(Actor.key)
            => Read(Actor.variant, Segment(Actor.variant), Actor.key)
                 = Apply(last.arg, last.seen0)

(* -------------------------------- C4 ---------------------------------- *)

\* C4: no operation ends with an exception, whatever is passed to the
\* setter (string, number, null, undefined, updater function).
C4_NoException == last.err = "none"

(* -------------------------------- C5 ---------------------------------- *)

\* C5: update(k, v) with a blank v removes k from the URL namespace and
\* leaves every other key as it was.
C5_Deletion ==
  (Updated /\ last.arg.t = "str" /\ Blank(last.arg.s))
    => /\ ~Present(Actor.variant, Segment(Actor.variant), Actor.key)
       /\ \A k2 \in Keys \ {Actor.key} :
            /\ Present(Actor.variant, Segment(Actor.variant), k2)
                 = Present(Actor.variant, Segment0(Actor.variant), k2)
            /\ Read(Actor.variant, Segment(Actor.variant), k2)
                 = Read(Actor.variant, Segment0(Actor.variant), k2)

(* -------------------------------- C6 ---------------------------------- *)

\* no render is pending: the setter closes over the current state and the
\* effect of the query variant has nothing to do
Quiet(h) ==
  /\ h.seen = h.state
  /\ ~(h.variant = "query" /\ QueryDefaultValue(h.key, h.defaultVal) # h.deps)

\* C6: once the setter has been called and the re-renders it triggers are
\* done, the hook's value agrees with the URL: it equals the stored value
\* when the key is present, and it is blank when the key is absent.  Stated
\* for the query variant holding a string after calls that raised no error,
\* the case of clearing a key.
C6_Consistency ==
  \A i \in Inst :
    (/\ hooks[i].mounted
     /\ hooks[i].variant = "query"
     /\ hooks[i].state.t = "str"
     /\ calls > 0
     /\ last.err = "none"
     /\ Quiet(hooks[i]))
      => IF Present(hooks[i].variant, Segment(hooks[i].variant), hooks[i].key)
         THEN hooks[i].state
                = Read(hooks[i].variant, Segment(hooks[i].variant), hooks[i].key)
         ELSE hooks[i].state.t = "str" /\ Blank(hooks[i].state.s)

(* -------------------------------- C7 ---------------------------------- *)

\* C7: an updater function f called twice in a row observes, the second
\* time, the result of the first call, also when the component has not
\* re-rendered in between: the hook's value and the URL hold f(value set by
\* the first call).
C7_Ordering ==
  (Updated /\ last.arg.t = "fn" /\ last.repeat /\ last.err = "none")
    => /\ Actor.state = Apply(last.arg, last.state0)
       /\ (Apply(last.arg, last.state0).t = "str" /\ ~Blank(Actor.key))
            => Read(Actor.variant, Segment(Actor.variant), Actor.key)
                 = Apply(last.arg, last.state0)

(* -------------------------------- C8 ---------------------------------- *)

\* C8: with two hooks on different (non-blank) keys of one segment, an
\* update by one hook keeps the other hook's last written non-blank value in
\* the URL, and keeps an entry that code other than the hooks wrote there
\* after the page was loaded.
C8_NoClobber ==
  (Updated /\ ~Blank(Actor.key))
    => /\ \A j \in Inst \ {last.inst} :
            LET before ==
                  Read(Actor.variant, Segment0(Actor.variant), hooks[j].key)
            IN (/\ hooks[j].mounted
                /\ ~Blank(hooks[j].key)
                /\ before.t = "str"
                /\ ~Blank(before.s))
                 => Read(Actor.variant, Segment(Actor.variant), hooks[j].key)
                      = before
       /\ (/\ Actor.key # ForeignKey
           /\ Read(Actor.variant, Segment0(Actor.variant), ForeignKey)
                = Str(<<"z">>))
            => Read(Actor.variant, Segment(Actor.variant), ForeignKey)
                 = Str(<<"z">>)

(* -------------------------------- C9 ---------------------------------- *)

URLUntouched ==
  /\ locationSearch = last.search0
  /\ locationHash = last.hash0
  /\ historyLen = last.hist0

Stored(h) ==
  IF h.variant = "query" THEN Read("query", locationSearch, h.key)
  ELSE IF HasKey(hashAsObject, h.key) THEN ObjGet(hashAsObject, h.key)
  ELSE Null

C10_Idempotence ==
  (Updated /\ last.repeat /\ last.arg.t # "fn")
    => Namespace(Actor.variant, Segment(Actor.variant))
         = Namespace(Actor.variant, Segment0(Actor.variant))

\* the hash variant has written "x" twice in a row next to another entry
C10_Witness ==
  /\ Updated
  /\ last.repeat
  /\ last.arg = Str(<<"x">>)
  /\ Actor.variant = "hash"
  /\ Actor.key = <<"b">>
  /\ Len(ParseHash(locationHash)) = 2
  /\ Read("hash", locationHash, <<"b">>) = Str(<<"x">>)

(* ====================================================================== *)
(* The hooks of hooks.js                                                  *)
(* ====================================================================== *)

(* -------------------------------- JSON -------------------------------- *)

Quote == "\""

\* what JSON.parse throws is a value of its own
SyntaxError == [t |-> "error", s |-> <<"S", "y", "n", "t", "a", "x">>]

\* String(v) in place of JSON.stringify(v): a string is stored unquoted
JSONStringifyRaw(v) == Str(TemplateString(v))

\* JSON.stringify(v): a string is quoted (the strings of the model hold no
\* character that is escaped), NaN becomes null, undefined and functions
\* give undefined
JSONStringify(v) ==
  CASE v.t = "str" -> Str(<<Quote>> \o v.s \o <<Quote>>)
    [] v.t = "num" -> IF v.s = NaNChars THEN Str(NullChars) ELSE Str(v.s)
    [] v.t = "null" -> Str(NullChars)
    [] OTHER -> Undefined

\* JSON.parse(v): the argument is converted to a string; the texts of the
\* model are null, a number, a quoted string, or no JSON text at all
JSONParse(v) ==
  LET r == Trim(TemplateString(v))
  IN IF r = NullChars THEN Null
     ELSE IF /\ r # <<>>
             /\ \A i \in 1..Len(r) : IsDigit(r[i])
             /\ (Len(r) = 1 \/ r[1] # "0")
       THEN Num(r)
     ELSE IF /\ Len(r) >= 2
             /\ r[1] = Quote
             /\ r[Len(r)] = Quote
             /\ \A i \in 2..(Len(r) - 1) : r[i] # Quote
       THEN Str(SubSeq(r, 2, Len(r) - 1))
     ELSE SyntaxError

(* --------------------------- useLocalStorage -------------------------- *)

\* number of setValue calls in one behaviour
MaxSets == 2

\* what storage holds for a key when the page loads: nothing, an empty
\* item, an item that is no JSON text (x), or the JSON text "y"
InitItems ==
  {Null, Str(<<>>), Str(<<"x">>), Str(<<Quote, "y", Quote>>)}

StorageInitials == {Str(<<>>), Num(<<"0">>)}

StorageLiterals ==
  {Str(<<>>), Str(<<"x">>), Num(<<"0">>), Num(<<"5">>), Num(NaNChars),
   Null, Undefined}

storageFrame ==
  <<urlVars, updateEffectVars, onlineVars, listenerVars, outsideVars,
    readonlyVars>>

\* window.localStorage.getItem(key)
getItem(key) == localStorage[key]

\* window.localStorage.setItem(key, value): the value is stored as a string
setItem(key, value) ==
  [localStorage EXCEPT ![key] = Str(TemplateString(value))]

\* the initialiser of useState: item ? JSON.parse(item) : initialValue,
\* and initialValue when JSON.parse throws
StoredInitial(key, initialValue) ==
  LET item == getItem(key)
  IN IF Truthy(item)
     THEN IF JSONParse(item) = SyntaxError
          THEN initialValue
          ELSE JSONParse(item)
     ELSE initialValue

\* useLocalStorage(key, initialValue), first render after a (re)load
useLocalStorage(key, initialValue) ==
  /\ ~lsHook.mounted
  /\ lsHook' =
       [mounted |-> TRUE, key |-> key, initialValue |-> initialValue,
        storedValue |-> StoredInitial(key, initialValue),
        seen |-> StoredInitial(key, initialValue)]
  /\ lsLog' = [lsLog EXCEPT !.op = "mount", !.err = "none"]
  /\ UNCHANGED <<localStorage, storageFrame>>

\* a later render: setValue closes over the state of this render
LsRender ==
  /\ lsHook.mounted
  /\ lsHook.seen # lsHook.storedValue
  /\ lsHook' = [lsHook EXCEPT !.seen = lsHook.storedValue]
  /\ lsLog' = [lsLog EXCEPT !.op = "render", !.err = "none"]
  /\ UNCHANGED <<localStorage, storageFrame>>

\* setValue(value): the state is set, then the item is written; setItem
\* throws when storage does not accept the write, and the error is caught
setValue(value, accepted) ==
  LET valueToStore ==
        IF value.t = "fn" THEN Apply(value, lsHook.seen) ELSE value
  IN /\ lsHook.mounted
     /\ lsLog.n < MaxSets
     /\ lsHook' = [lsHook EXCEPT !.storedValue = valueToStore]
     /\ localStorage' =
          IF accepted
          THEN setItem(lsHook.key, JSONStringify(valueToStore))
          ELSE localStorage
     /\ lsLog' =
          [op |-> "set", err |-> IF accepted THEN "none" ELSE "QuotaExceeded",
           n |-> lsLog.n + 1,
           sets |-> [lsLog.sets EXCEPT ![lsHook.key] =
                       [set |-> TRUE, v |-> valueToStore, ok |-> accepted]]]
     /\ UNCHANGED storageFrame

\* the page is reloaded: the component state is gone, storage is kept
Reload ==
  /\ lsHook.mounted
  /\ lsHook' = LsUnmounted
  /\ lsLog' = [lsLog EXCEPT !.op = "reload", !.err = "none"]
  /\ UNCHANGED <<localStorage, storageFrame>>

InitStorage ==
  /\ UrlIdle
  /\ localStorage \in [StorageKeys -> InitItems]
  /\ lsHook = LsUnmounted
  /\ lsLog = LsNoOp
  /\ UpdateEffectIdle
  /\ OnlineIdle
  /\ ListenerIdle
  /\ OutsideIdle
  /\ ReadonlyIdle

NextStorage ==
  \/ \E key \in StorageKeys, d \in StorageInitials : useLocalStorage(key, d)
  \/ LsRender
  \/ \E value \in StorageLiterals \cup Updaters, accepted \in BOOLEAN :
       setValue(value, accepted)
  \/ Reload

SpecStorage == InitStorage /\ [][NextStorage]_vars

\* the last value passed to setValue for the key of the hook
LastSet == lsLog.sets[lsHook.key]

\* a value that JSON represents: a string, a finite number or null
JSONValue(v) ==
  \/ v.t \in {"str", "null"}
  \/ v.t = "num" /\ v.s # NaNChars

\* C11 as stated, for writes that storage accepted: after setValue(v),
\* directly or through an updater, a fresh initialisation of
\* useLocalStorage with the same key returns v, whatever v is.
C11_PersistenceAll ==
  (lsLog.op = "mount" /\ LastSet.set /\ LastSet.ok)
    => lsHook.storedValue = LastSet.v

\* C11: after setValue(v) with a value v that JSON represents and a write
\* that storage accepted, a fresh initialisation of useLocalStorage with
\* the same key returns v.
C11_Persistence ==
  (lsLog.op = "mount" /\ LastSet.set /\ LastSet.ok /\ JSONValue(LastSet.v))
    => lsHook.storedValue = LastSet.v

C11_Witness ==
  /\ lsLog.op = "mount"
  /\ LastSet.set /\ LastSet.ok
  /\ LastSet.v = Str(<<"x">>)
  /\ lsHook.initialValue # LastSet.v
  /\ lsHook.storedValue = LastSet.v

(* --------------------------- useUpdateEffect -------------------------- *)

\* number of renders in one behaviour
MaxRenders == 5

DepValues == {Str(<<"a">>), Str(<<"b">>), Num(NaNChars)}

\* the dependency arrays a component passes: [], [d] and [d, e]
DepArrays ==
  {<<>>} \cup {<<d>> : d \in DepValues}
         \cup {<<d, e>> : d \in {Str(<<"a">>), Str(<<"b">>)},
                          e \in {Str(<<"a">>), Str(<<"b">>)}}

updateEffectFrame ==
  <<urlVars, storageVars, onlineVars, listenerVars, outsideVars,
    readonlyVars>>

\* React compares the arrays entry by entry with Object.is, which holds NaN
\* equal to itself, as the equality of the value records does
areHookInputsEqual(nextDeps, prevDeps) ==
  \A i \in 1..Len(prevDeps) : i <= Len(nextDeps) => nextDeps[i] = prevDeps[i]

\* the effect invokes the callback on every run
CallbackRunsAlways(firstRenderRef) == IF firstRenderRef THEN 1 ELSE 1

\* if (firstRenderRef.current) { ...; return; } return callback();
CallbackRuns(firstRenderRef) == IF firstRenderRef THEN 0 ELSE 1

\* useUpdateEffect(callback, dependencies), first render and its commit:
\* useRef(true), then the effect runs
useUpdateEffect(dependencies) ==
  /\ ~ueHook.mounted
  /\ ueLog.renders < MaxRenders
  /\ ueHook' =
       [mounted |-> TRUE, firstRenderRef |-> FALSE, deps |-> dependencies]
  /\ ueLog' =
       [op |-> "mount", changed |-> FALSE,
        invoked |-> CallbackRuns(TRUE),
        renders |-> ueLog.renders + 1,
        changes |-> 0,
        total |-> CallbackRuns(TRUE)]
  /\ UNCHANGED updateEffectFrame

\* a later render and its commit: the effect runs when the dependencies
\* differ from those of the last commit
UeRender(dependencies) ==
  LET runs == ~areHookInputsEqual(dependencies, ueHook.deps)
      invoked == IF runs THEN CallbackRuns(ueHook.firstRenderRef) ELSE 0
  IN /\ ueHook.mounted
     /\ ueLog.renders < MaxRenders
     /\ Len(dependencies) = Len(ueHook.deps)
     /\ ueHook' =
          [ueHook EXCEPT
             !.deps = dependencies,
             !.firstRenderRef = IF runs THEN FALSE ELSE ueHook.firstRenderRef]
     /\ ueLog' =
          [op |-> "render",
           changed |-> (dependencies # ueHook.deps),
           invoked |-> invoked,
           renders |-> ueLog.renders + 1,
           changes |-> ueLog.changes
                         + (IF dependencies # ueHook.deps THEN 1 ELSE 0),
           total |-> ueLog.total + invoked]
     /\ UNCHANGED updateEffectFrame

\* the component is unmounted; a later mount is a new hook instance
UeUnmount ==
  /\ ueHook.mounted
  /\ ueHook' = UeUnmounted
  /\ ueLog' = [ueLog EXCEPT !.op = "unmount", !.changed = FALSE,
                            !.invoked = 0]
  /\ UNCHANGED updateEffectFrame

InitUpdateEffect ==
  /\ UrlIdle
  /\ StorageIdle
  /\ UpdateEffectIdle
  /\ OnlineIdle
  /\ ListenerIdle
  /\ OutsideIdle
  /\ ReadonlyIdle

NextUpdateEffect ==
  \/ \E dependencies \in DepArrays : useUpdateEffect(dependencies)
  \/ \E dependencies \in DepArrays : UeRender(dependencies)
  \/ UeUnmount

SpecUpdateEffect == InitUpdateEffect /\ [][NextUpdateEffect]_vars

\* C12: the callback is not invoked for the initial render, it is invoked
\* exactly once for each later render in which a dependency changed and
\* not at all for a render in which none changed; so, over the renders of
\* one mounted component, it was invoked as often as a dependency changed.
C12_UpdatesOnly ==
  /\ ueLog.op = "mount" => ueLog.invoked = 0
  /\ ueLog.op = "render" =>
       ueLog.invoked = (IF ueLog.changed THEN 1 ELSE 0)
  /\ ueHook.mounted => ueLog.total = ueLog.changes

C12_Witness ==
  /\ ueLog.op = "render"
  /\ ueLog.changed
  /\ ueLog.invoked = 1
  /\ ueLog.total = 2
  /\ ueLog.renders = 4

(* --------------------------- useOnlineStatus -------------------------- *)

\* number of network status changes in one behaviour
MaxFlips == 4

onlineFrame ==
  <<urlVars, storageVars, updateEffectVars, listenerVars, outsideVars,
    readonlyVars>>

\* the event the browser fires for a transition of navigator.onLine
StatusEvent(onLine) == IF onLine THEN "online" ELSE "offline"

\* the network goes down or comes back: navigator.onLine changes at once
\* and the browser queues a task that fires the event on window
StatusChange ==
  /\ olEnv.flips < MaxFlips
  /\ olEnv' =
       [onLine |-> ~olEnv.onLine,
        pending |-> Append(olEnv.pending, StatusEvent(~olEnv.onLine)),
        flips |-> olEnv.flips + 1]
  /\ UNCHANGED <<olHook, onlineFrame>>

\* useOnlineStatus(), first render: useState(navigator.onLine); the two
\* useEventListener calls register nothing before their effects run
useOnlineStatus ==
  /\ olHook.phase = "none"
  /\ olHook' =
       [phase |-> "rendered", online |-> olEnv.onLine,
        seen |-> olEnv.onLine, listening |-> FALSE, op |-> "mount"]
  /\ UNCHANGED <<olEnv, onlineFrame>>

\* the effects of the first render run: both useEventListener instances
\* call window.addEventListener, for "online" and for "offline"
OlCommit ==
  /\ olHook.phase = "rendered"
  /\ olHook' = [olHook EXCEPT !.phase = "committed", !.listening = TRUE,
                               !.op = "commit"]
  /\ UNCHANGED <<olEnv, onlineFrame>>

\* the browser fires the oldest pending event on window: a registered
\* handler calls callbackRef.current, which is setOnline(navigator.onLine)
\* with the value navigator.onLine has now; without a handler the event is
\* lost
OlDispatch ==
  /\ olEnv.pending # <<>>
  /\ olEnv' = [olEnv EXCEPT !.pending = Tail(olEnv.pending)]
  /\ olHook' =
       IF olHook.listening
       THEN [olHook EXCEPT !.online = olEnv.onLine, !.op = "event"]
       ELSE olHook
  /\ UNCHANGED onlineFrame

\* the render that follows setOnline: the hook returns the new state
OlRender ==
  /\ olHook.phase = "committed"
  /\ olHook.seen # olHook.online
  /\ olHook' = [olHook EXCEPT !.seen = olHook.online, !.op = "render"]
  /\ UNCHANGED <<olEnv, onlineFrame>>

\* the component is unmounted: both cleanups remove their handler
OlUnmount ==
  /\ olHook.phase = "committed"
  /\ olHook' = [OlUnmounted EXCEPT !.op = "unmount"]
  /\ UNCHANGED <<olEnv, onlineFrame>>

InitOnline ==
  /\ UrlIdle
  /\ StorageIdle
  /\ UpdateEffectIdle
  /\ olEnv \in {[OlEnvInitial EXCEPT !.onLine = b] : b \in BOOLEAN}
  /\ olHook = OlUnmounted
  /\ ListenerIdle
  /\ OutsideIdle
  /\ ReadonlyIdle

NextOnline ==
  \/ StatusChange
  \/ useOnlineStatus
  \/ OlCommit
  \/ OlDispatch
  \/ OlRender
  \/ OlUnmount

SpecOnline == InitOnline /\ [][NextOnline]_vars

\* every event was dispatched, the effects ran and no render is pending
OlSettled ==
  /\ olHook.phase = "committed"
  /\ olEnv.pending = <<>>
  /\ olHook.seen = olHook.online

\* C13: once all pending events have been handled, the value returned by
\* useOnlineStatus equals navigator.onLine, whatever the interleaving of
\* status changes, events, renders and effect commits, a status change
\* between the first render and the registration of the listeners included.
C13_Tracking == OlSettled => olHook.seen = olEnv.onLine

(* --------------------------- useEventListener ------------------------- *)

Callbacks == {"f", "g"}

\* the element argument: omitted, null, or an element of the page
ElementArgs == {"undefined", "null", "el1", "el2"}

listenerFrame ==
  <<urlVars, storageVars, updateEffectVars, onlineVars, outsideVars,
    readonlyVars>>

\* element = window: the default stands in for an omitted argument only
ElementOrWindow(element) == IF element = "undefined" THEN "window" ELSE element

Props(eventType, callback, element) ==
  [eventType |-> eventType, callback |-> callback,
   element |-> ElementOrWindow(element)]

\* the cleanup is dropped: the handler of the previous effect stays
RemoveNothing(targets, handler) == targets

\* element.removeEventListener(eventType, handler)
RemoveEventListener(targets, handler) ==
  IF handler = NoHandler
  THEN targets
  ELSE [targets EXCEPT ![handler] = targets[handler] - 1]

\* if (element == null) return; element.addEventListener(eventType, handler)
AddEventListener(targets, props) ==
  IF props.element = "null"
  THEN targets
  ELSE [targets EXCEPT ![<<props.element, props.eventType>>] =
          targets[<<props.element, props.eventType>>] + 1]

\* what the cleanup returned by the effect removes
CleanupOf(props) ==
  IF props.element = "null"
  THEN NoHandler
  ELSE <<props.element, props.eventType>>

\* useEventListener(eventType, callback, element), first render:
\* useRef(callback); the effects have not run
useEventListener(eventType, callback, element) ==
  /\ elHook.phase = "none"
  /\ elHook' =
       [ElUnmounted EXCEPT
          !.phase = "rendered",
          !.props = Props(eventType, callback, element),
          !.callbackRef = callback]
  /\ elLog' = [ElNoOp EXCEPT !.op = "mount"]
  /\ UNCHANGED <<elTargets, listenerFrame>>

\* a later render with any arguments; its effects have not run
ElRender(eventType, callback, element) ==
  /\ elHook.phase = "committed"
  /\ elHook' =
       [elHook EXCEPT
          !.phase = "rerendered",
          !.props = Props(eventType, callback, element)]
  /\ elLog' = [ElNoOp EXCEPT !.op = "render"]
  /\ UNCHANGED <<elTargets, listenerFrame>>

\* the effects of the last render run.  [callback]: callbackRef.current is
\* set.  [eventType, element]: on the first commit the handler is added; on
\* a later commit with a changed dependency the cleanup of the previous
\* effect runs and then the handler is added for the new arguments.
ElCommit ==
  LET h == elHook
      first == h.phase = "rendered"
      setRef == first \/ h.props.callback # h.committed.callback
      rebind ==
        \/ first
        \/ h.props.eventType # h.committed.eventType
        \/ h.props.element # h.committed.element
  IN /\ h.phase \in {"rendered", "rerendered"}
     /\ elHook' =
          [h EXCEPT
             !.phase = "committed",
             !.committed = h.props,
             !.callbackRef = IF setRef THEN h.props.callback
                             ELSE h.callbackRef,
             !.cleanup = IF rebind THEN CleanupOf(h.props) ELSE h.cleanup]
     /\ elTargets' =
          IF rebind
          THEN AddEventListener(
                 RemoveEventListener(elTargets, h.cleanup), h.props)
          ELSE elTargets
     /\ elLog' = [ElNoOp EXCEPT !.op = "commit"]
     /\ UNCHANGED listenerFrame

\* an event of some type is dispatched on some target: every handler the
\* hook registered there calls callbackRef.current(e)
ElDispatch(target, eventType) ==
  /\ elLog' =
       [op |-> "dispatch", target |-> target, eventType |-> eventType,
        handlers |-> elTargets[<<target, eventType>>],
        callback |-> IF elTargets[<<target, eventType>>] > 0
                     THEN elHook.callbackRef
                     ELSE "none"]
  /\ UNCHANGED <<elTargets, elHook, listenerFrame>>

\* the component is unmounted: the cleanup of the last effect runs
ElUnmount ==
  /\ elHook.phase = "committed"
  /\ elTargets' = RemoveEventListener(elTargets, elHook.cleanup)
  /\ elHook' = ElUnmounted
  /\ elLog' = [ElNoOp EXCEPT !.op = "unmount"]
  /\ UNCHANGED listenerFrame

InitListener ==
  /\ UrlIdle
  /\ StorageIdle
  /\ UpdateEffectIdle
  /\ OnlineIdle
  /\ ListenerIdle
  /\ OutsideIdle
  /\ ReadonlyIdle

NextListener ==
  \/ \E eventType \in EventTypes, callback \in Callbacks,
        element \in ElementArgs :
       useEventListener(eventType, callback, element)
  \/ \E eventType \in EventTypes, callback \in Callbacks,
        element \in ElementArgs :
       ElRender(eventType, callback, element)
  \/ ElCommit
  \/ \E target \in Targets, eventType \in EventTypes :
       ElDispatch(target, eventType)
  \/ ElUnmount

SpecListener == InitListener /\ [][NextListener]_vars

\* the hook has committed a render and is not unmounted
ElLive == elHook.phase \in {"committed", "rerendered"}

\* where the hook's handler has to be: on the element and for the event
\* type of the most recent committed render, nowhere when that element is
\* null, before the first commit or after unmount
ElExpected(t) ==
  IF /\ ElLive
     /\ elHook.committed.element # "null"
     /\ t = <<elHook.committed.element, elHook.committed.eventType>>
  THEN 1
  ELSE 0

\* C14: at any time the hook has at most one handler registered; it is on
\* the element and for the event type of the most recent committed render
\* (none when that element is null), none is left on a previous element or
\* event type or after unmount, and a dispatched event invokes, once, the
\* callback of the most recent committed render.
C14_SingleHandler ==
  /\ \A t \in Targets \X EventTypes : elTargets[t] = ElExpected(t)
  /\ elLog.op = "dispatch" =>
       /\ elLog.handlers = ElExpected(<<elLog.target, elLog.eventType>>)
       /\ elLog.handlers > 0 => elLog.callback = elHook.committed.callback

C14_Witness ==
  /\ elLog.op = "dispatch"
  /\ elLog.handlers = 1
  /\ elLog.target = "el2"
  /\ elLog.callback = "g"
  /\ elHook.phase = "rerendered"
  /\ elHook.props.element = "null"
  /\ elHook.props.callback = "f"

(* --------------------------- useOutsideClick -------------------------- *)

\* number of renders of one mounted component
MaxClickRenders == 4

\* ref.current: null, or the element the ref is attached to
RefValues == {"null", "el"}

\* where a mousedown lands: in the referenced element or elsewhere
ClickTargets == {"inside", "outside"}

outsideFrame ==
  <<urlVars, storageVars, updateEffectVars, onlineVars, listenerVars,
    readonlyVars>>

\* the cleanup is dropped: the handler of the previous render stays
KeepListener(handlers) == handlers

\* document.removeEventListener("mousedown", handleClickOutside)
RemoveListener(handlers) == IF handlers > 0 THEN handlers - 1 ELSE handlers

\* ref.current && !ref.current.contains(evt.target)
IsOutside(refCurrent, target) == refCurrent # "null" /\ target = "outside"

\* useOutsideClick(ref, callback), first render: the effect has not run
useOutsideClick(callback) ==
  /\ ocHook.phase = "none"
  /\ ocHook' =
       [OcUnmounted EXCEPT !.phase = "rendered", !.callback = callback,
                           !.renders = 1]
  /\ ocLog' = [OcNoOp EXCEPT !.op = "mount"]
  /\ UNCHANGED outsideFrame

\* a later render, with any callback; its effect has not run
OcRender(callback) ==
  /\ ocHook.phase = "committed"
  /\ ocHook.renders < MaxClickRenders
  /\ ocHook' =
       [ocHook EXCEPT !.phase = "rerendered", !.callback = callback,
                      !.renders = ocHook.renders + 1]
  /\ ocLog' = [OcNoOp EXCEPT !.op = "render"]
  /\ UNCHANGED outsideFrame

\* the commit of the last render: React attaches or detaches the ref, then
\* the effect, which has no dependency array, runs: the cleanup of the
\* previous effect removes its handler and a handler that closes over the
\* callback of this render is added
OcCommit(refCurrent) ==
  /\ ocHook.phase \in {"rendered", "rerendered"}
  /\ ocHook' =
       [ocHook EXCEPT
          !.phase = "committed",
          !.refCurrent = refCurrent,
          !.bound = ocHook.callback,
          !.handlers = RemoveListener(ocHook.handlers) + 1]
  /\ ocLog' = [OcNoOp EXCEPT !.op = "commit"]
  /\ UNCHANGED outsideFrame

\* a mousedown reaches document: every registered handleClickOutside tests
\* ref.current and the target, and calls its callback
Mousedown(target) ==
  /\ ocLog' =
       [op |-> "mousedown", target |-> target,
        refCurrent |-> ocHook.refCurrent,
        live |-> (ocHook.phase \in {"committed", "rerendered"}),
        invoked |-> IF IsOutside(ocHook.refCurrent, target)
                    THEN ocHook.handlers
                    ELSE 0,
        callback |-> IF IsOutside(ocHook.refCurrent, target)
                        /\ ocHook.handlers > 0
                     THEN ocHook.bound
                     ELSE "none"]
  /\ UNCHANGED <<ocHook, outsideFrame>>

\* the component is unmounted: React detaches the ref and the cleanup of
\* the last effect removes the handler
OcUnmount ==
  /\ ocHook.phase = "committed"
  /\ ocHook' =
       [OcUnmounted EXCEPT !.handlers = RemoveListener(ocHook.handlers)]
  /\ ocLog' = [OcNoOp EXCEPT !.op = "unmount"]
  /\ UNCHANGED outsideFrame

InitOutside ==
  /\ UrlIdle
  /\ StorageIdle
  /\ UpdateEffectIdle
  /\ OnlineIdle
  /\ ListenerIdle
  /\ OutsideIdle
  /\ ReadonlyIdle

NextOutside ==
  \/ \E callback \in Callbacks : useOutsideClick(callback)
  \/ \E callback \in Callbacks : OcRender(callback)
  \/ \E refCurrent \in RefValues : OcCommit(refCurrent)
  \/ \E target \in ClickTargets : Mousedown(target)
  \/ OcUnmount

SpecOutside == InitOutside /\ [][NextOutside]_vars

\* C15: a mousedown invokes the callback exactly when the component is
\* mounted (its effect has run and it is not unmounted), ref.current is
\* set and the target is not inside it; it invokes the callback once,
\* however many renders came before, and never for a mousedown inside the
\* element, with ref.current null or after unmount.
C15_OutsideOnly ==
  ocLog.op = "mousedown" =>
    ocLog.invoked =
      (IF ocLog.live /\ ocLog.refCurrent # "null" /\ ocLog.target = "outside"
       THEN 1
       ELSE 0)

C15_Witness ==
  /\ ocLog.op = "mousedown"
  /\ ocLog.target = "outside"
  /\ ocLog.refCurrent = "el"
  /\ ocLog.invoked = 1
  /\ ocHook.renders = 3
  /\ ocHook.phase = "committed"

(* ------------------------------ useReadonly --------------------------- *)

\* number of renders in one behaviour
MaxReadonlyRenders == 4

\* the values a changing state takes
ReadonlyValues ==
  {Str(<<>>), Str(<<"x">>), Num(<<"5">>), Num(NaNChars), Null, Undefined}

readonlyFrame ==
  <<urlVars, storageVars, updateEffectVars, onlineVars, listenerVars,
    outsideVars>>

\* JSON.parse(JSON.stringify(value)), the argument of useRef: it is
\* evaluated on every render
DeepCopy(value) == JSONParse(JSONStringify(value))

\* useReadonly(value), first render: the copy becomes valueRef.current;
\* when JSON.parse throws, the render fails and nothing is mounted
useReadonly(value) ==
  /\ ~roHook.mounted
  /\ roLog.renders < MaxReadonlyRenders
  /\ IF DeepCopy(value) = SyntaxError
     THEN /\ roHook' = RoUnmounted
          /\ roLog' =
               [op |-> "mount", arg |-> value, first |-> value,
                err |-> "SyntaxError", renders |-> roLog.renders + 1]
     ELSE /\ roHook' =
               [mounted |-> TRUE, valueRef |-> DeepCopy(value),
                result |-> DeepCopy(value)]
          /\ roLog' =
               [op |-> "mount", arg |-> value, first |-> value,
                err |-> "none", renders |-> roLog.renders + 1]
  /\ UNCHANGED readonlyFrame

\* a later render with the value the argument has now: the copy is made
\* again and useRef ignores it; when JSON.parse throws, the render fails
\* and React unmounts the component
RoRender(value) ==
  /\ roHook.mounted
  /\ roLog.renders < MaxReadonlyRenders
  /\ IF DeepCopy(value) = SyntaxError
     THEN /\ roHook' = RoUnmounted
          /\ roLog' =
               [roLog EXCEPT !.op = "render", !.arg = value,
                             !.err = "SyntaxError",
                             !.renders = roLog.renders + 1]
     ELSE /\ roHook' = [roHook EXCEPT !.result = roHook.valueRef]
          /\ roLog' =
               [roLog EXCEPT !.op = "render", !.arg = value,
                             !.err = "none",
                             !.renders = roLog.renders + 1]
  /\ UNCHANGED readonlyFrame

\* the component is unmounted; a later mount is a new hook instance
RoUnmount ==
  /\ roHook.mounted
  /\ roHook' = RoUnmounted
  /\ roLog' = [roLog EXCEPT !.op = "unmount", !.err = "none"]
  /\ UNCHANGED readonlyFrame

InitReadonly ==
  /\ UrlIdle
  /\ StorageIdle
  /\ UpdateEffectIdle
  /\ OnlineIdle
  /\ ListenerIdle
  /\ OutsideIdle
  /\ ReadonlyIdle

NextReadonly ==
  \/ \E value \in ReadonlyValues : useReadonly(value)
  \/ \E value \in ReadonlyValues : RoRender(value)
  \/ RoUnmount

SpecReadonly == InitReadonly /\ [][NextReadonly]_vars

\* C16: after a first render with a value that JSON represents, every
\* later render, whatever value the argument has by then, succeeds and
\* returns a copy of the value of the first render.
C16_Readonly ==
  (roLog.op = "render" /\ JSONValue(roLog.first)) =>
    /\ roLog.err = "none"
    /\ roHook.result = roLog.first

====
